---- MODULE Spec2Model ----
(***************************************************************************)
(* Model of src/emoji_manager.py: the EmojiManager maubot plugin.          *)
(*                                                                         *)
(* Python strings that the code inspects (shortcodes, URLs, room           *)
(* references) are sequences of one-character strings; strings the code    *)
(* only compares or tests for truth (preset names, senders, pack metadata  *)
(* values) are TLA+ strings.  A Python dict is a function; its keys are    *)
(* the DOMAIN.  Every action is the code a coroutine runs between two      *)
(* awaits that suspend it (asyncio runs one coroutine at a time).          *)
(*                                                                         *)
(* Spec is the rollout coordinator (bulk-preset, cancel, the _bulk_preset  *)
(* tasks) and SpecFair is Spec under the scheduling of the event loop;     *)
(* SpecSingle is the single-target commands (add, remove) and SpecAdd the  *)
(* add commands alone; SpecValidate runs _validate_preset and SpecDecode   *)
(* runs _read_pack over the inputs they can be given.                      *)
(***************************************************************************)
EXTENDS Integers, Sequences, FiniteSets, TLC

----------------------------------------------------------------------------
(* Bounds of the model *)

MaxFaults == 1        \* remote calls that fail in one behaviour
MaxEntries == 3       \* entries of a raw preset validated on its own

----------------------------------------------------------------------------
(* Python values *)

EmptyDict == <<>>
EmptyStr == <<>>

PyStr(s) == [t |-> "str", s |-> s]
PyInt(n) == [t |-> "int", s |-> <<n>>]

LowerCase == {"a", "b", "c", "d", "e", "f", "g", "h", "i", "j", "k", "l", "m",
              "n", "o", "p", "q", "r", "s", "t", "u", "v", "w", "x", "y", "z"}
UpperCase == {"A", "B", "C", "D", "E", "F", "G", "H", "I", "J", "K", "L", "M",
              "N", "O", "P", "Q", "R", "S", "T", "U", "V", "W", "X", "Y", "Z"}
Digits == {"0", "1", "2", "3", "4", "5", "6", "7", "8", "9"}
Ascii == LowerCase \cup UpperCase \cup Digits \cup
         {"_", "-", " ", "!", "#", ":", "/", ".", "\n"}

\* str.startswith
StartsWith(s, p) == Len(s) >= Len(p) /\ SubSeq(s, 1, Len(p)) = p

\* len(s.encode("utf-8")): one byte per ASCII character, two for the
\* non-ASCII characters used here
Utf8Len(s) == Len(s) + Cardinality({i \in 1..Len(s) : s[i] \notin Ascii})

\* truth value of a dict or of a sequence
Truthy(d) == DOMAIN d # {}

\* dict.get(key) with default
Get(d, key, default) == IF key \in DOMAIN d THEN d[key] ELSE default

----------------------------------------------------------------------------
(* Module-level constants and functions *)

SHORTCODE_MAX_BYTES == 100

\* SHORTCODE_RE = ^[a-zA-Z0-9_-]+$ used with re.match: one or more class
\* characters, and `$` also matches just before one trailing newline
ShortcodeClass == LowerCase \cup UpperCase \cup Digits \cup {"_", "-"}
SHORTCODE_RE(s) ==
    LET body == IF Len(s) >= 1 /\ s[Len(s)] = "\n" THEN SubSeq(s, 1, Len(s) - 1) ELSE s
    IN Len(body) >= 1 /\ \A i \in 1..Len(body) : body[i] \in ShortcodeClass

validate_shortcode(shortcode) ==
    IF ~SHORTCODE_RE(shortcode) THEN [valid |-> FALSE, reason |-> "charset"]
    ELSE IF Utf8Len(shortcode) > SHORTCODE_MAX_BYTES THEN [valid |-> FALSE, reason |-> "too_long"]
    ELSE [valid |-> TRUE, reason |-> ""]

\* what get_state_event can hand back: an object with a serialize method
\* (the mautrix content types; serialize gives the JSON object), a plain
\* dict, or some other value
Obj(d) == [t |-> "obj", v |-> d]
RawDict(d) == [t |-> "dict", v |-> d]
RawOther(x) == [t |-> "other", v |-> x]

serialize_content(content) ==
    IF content.t = "obj" THEN content.v
    ELSE IF content.t = "dict" THEN content.v
    ELSE EmptyDict

\* faulty variant: only the legacy field name is read
get_images_legacy_only(content) ==
    IF "emoticons" \in DOMAIN content /\ Truthy(content["emoticons"]) THEN content["emoticons"]
    ELSE EmptyDict

get_images(content) ==
    IF "images" \in DOMAIN content /\ Truthy(content["images"]) THEN content["images"]
    ELSE IF "emoticons" \in DOMAIN content /\ Truthy(content["emoticons"]) THEN content["emoticons"]
    ELSE EmptyDict

get_pack_meta(content) ==
    IF "pack" \in DOMAIN content /\ Truthy(content["pack"]) THEN content["pack"]
    ELSE EmptyDict

\* faulty variant: the pack metadata is never written
build_pack_content_no_meta(images, pack_meta) == [images |-> images]

build_pack_content(images, pack_meta) ==
    IF Truthy(pack_meta) THEN [images |-> images, pack |-> pack_meta]
    ELSE [images |-> images]

----------------------------------------------------------------------------
(* Configuration (Config.do_update: presets, rooms, allowed_users, delay) *)

MXC == <<"m", "x", "c", ":", "/", "/">>
UrlAbc == PyStr(MXC \o <<"s", "/", "a">>)
UrlDef == PyStr(MXC \o <<"s", "/", "d">>)
UrlHttp == PyStr(<<"h", "t", "t", "p", ":", "/", "/", "x">>)

ScHappy == <<"h", "a", "p", "p", "y">>
ScSad == <<"s", "a", "d">>
ScBad == <<"b", "a", "d", " ", "!">>
ScLong == [i \in 1..(SHORTCODE_MAX_BYTES + 1) |-> "a"]

\* a raw entry of a preset: a dict, or some other YAML value
DictEntry(d) == [t |-> "dict", d |-> d]
StrEntry(s) == [t |-> "str", d |-> EmptyDict]

\* config["presets"]: name -> preset data; "images" keeps the insertion
\* order of the configured dict as a sequence of <<shortcode, entry>>
Presets ==
    [std    |-> [images |-> << <<ScHappy, DictEntry([url |-> UrlAbc])>>,
                               <<ScBad, DictEntry([url |-> UrlHttp])>> >>,
                 pack |-> [display_name |-> "Std", avatar_url |-> "mxc://s/av"]],
     bare   |-> [images |-> << <<ScHappy, DictEntry([url |-> UrlAbc])>>,
                               <<ScLong, DictEntry([url |-> UrlAbc])>>,
                               <<ScSad, DictEntry([url |-> UrlDef, body |-> PyStr(<<"s">>)])>> >>],
     empty  |-> [images |-> << <<ScBad, DictEntry([url |-> UrlHttp])>>,
                               <<ScSad, DictEntry(EmptyDict)>>,
                               <<ScHappy, StrEntry(MXC)>> >>,
                 pack |-> [display_name |-> "Empty"]],
     broken |-> [pack |-> [display_name |-> "Broken"]]]

\* preset names a command may carry: the configured ones and an unknown one
PresetNames == DOMAIN Presets \cup {"nope"}

\* config["rooms"]: an alias (resolved remotely) and a room id
Rooms == << <<"#", "a">>, <<"!", "b">> >>

\* what resolve_room_alias answers
Directory == (<<"#", "a">> :> <<"!", "a">>)

RoomIds == {<<"!", "a">>, <<"!", "b">>}

\* config["allowed_users"]
AllowedUsers == <<"@admin">>
Senders == {"@admin", "@guest"}

----------------------------------------------------------------------------
(* EmojiManager: helpers *)

_is_allowed(sender) ==
    ~Truthy(AllowedUsers) \/ \E i \in 1..Len(AllowedUsers) : AllowedUsers[i] = sender

\* _resolve_room awaits the homeserver only for an alias
NeedsResolve(room) == StartsWith(room, <<"#">>)

\* one pass through the body of `for shortcode, entry in raw_images.items()`,
\* lines 103-110.  acc holds images and warnings so far; raised tells that
\* line 107 raised: entry.get("url", "") is not a string, so it has no
\* startswith (AttributeError)
ValidateEntry(acc, shortcode, entry) ==
    LET v == validate_shortcode(shortcode)
        url == IF entry.t = "dict" THEN Get(entry.d, "url", PyStr(EmptyStr)) ELSE PyStr(EmptyStr)
    IN IF ~v.valid
       THEN [acc EXCEPT !.warnings = Append(acc.warnings, [shortcode |-> shortcode, reason |-> v.reason])]
       ELSE IF entry.t # "dict"
       THEN [acc EXCEPT !.warnings = Append(acc.warnings, [shortcode |-> shortcode, reason |-> "bad_url"])]
       ELSE IF url.t # "str"
       THEN [acc EXCEPT !.raised = TRUE]
       ELSE IF ~StartsWith(url.s, MXC)
       THEN [acc EXCEPT !.warnings = Append(acc.warnings, [shortcode |-> shortcode, reason |-> "bad_url"])]
       ELSE [acc EXCEPT !.images = [k \in DOMAIN acc.images \cup {shortcode} |->
                                      IF k = shortcode THEN [url |-> url] ELSE acc.images[k]]]

\* the loop of lines 102-110, from entry i on; an exception ends it
RECURSIVE ValidateEntries(_, _, _)
ValidateEntries(raw_images, i, acc) ==
    IF i > Len(raw_images) \/ acc.raised THEN acc
    ELSE ValidateEntries(raw_images, i + 1, ValidateEntry(acc, raw_images[i][1], raw_images[i][2]))

\* lines 99-101
NoEntries == [images |-> EmptyDict, warnings |-> <<>>, raised |-> FALSE]

\* faulty variant: a preset whose entries were all dropped is still accepted
_validate_preset_keep_empty(name) ==
    IF name \notin DOMAIN Presets
    THEN [images |-> EmptyDict, pack_meta |-> EmptyDict, warnings |-> <<>>, error |-> "unknown"]
    ELSE LET preset_data == Presets[name] IN
         IF "images" \notin DOMAIN preset_data
         THEN [images |-> EmptyDict, pack_meta |-> EmptyDict, warnings |-> <<>>, error |-> "misconfigured"]
         ELSE LET r == ValidateEntries(preset_data["images"], 1, NoEntries) IN
              IF r.raised
              THEN [images |-> EmptyDict, pack_meta |-> EmptyDict, warnings |-> <<>>, error |-> "AttributeError"]
              ELSE [images |-> r.images,
                    pack_meta |-> IF "pack" \in DOMAIN preset_data /\ Truthy(preset_data["pack"])
                                  THEN preset_data["pack"] ELSE EmptyDict,
                    warnings |-> r.warnings, error |-> ""]

\* _validate_preset, lines 88-116; the error "AttributeError" stands for the
\* exception of line 107, which leaves the function and its caller
_validate_preset(name) ==
    IF name \notin DOMAIN Presets
    THEN [images |-> EmptyDict, pack_meta |-> EmptyDict, warnings |-> <<>>, error |-> "unknown"]
    ELSE LET preset_data == Presets[name] IN
         IF "images" \notin DOMAIN preset_data
         THEN [images |-> EmptyDict, pack_meta |-> EmptyDict, warnings |-> <<>>, error |-> "misconfigured"]
         ELSE LET r == ValidateEntries(preset_data["images"], 1, NoEntries) IN
              IF r.raised
              THEN [images |-> EmptyDict, pack_meta |-> EmptyDict, warnings |-> <<>>, error |-> "AttributeError"]
              ELSE IF ~Truthy(r.images)
              THEN [images |-> EmptyDict, pack_meta |-> EmptyDict, warnings |-> r.warnings, error |-> "no_valid"]
              ELSE [images |-> r.images,
                    pack_meta |-> IF "pack" \in DOMAIN preset_data /\ Truthy(preset_data["pack"])
                                  THEN preset_data["pack"] ELSE EmptyDict,
                    warnings |-> r.warnings, error |-> ""]

\* the configuration does not change while the plugin runs, so the result of
\* _validate_preset depends on the name only
Validated == [name \in PresetNames |-> _validate_preset(name)]

----------------------------------------------------------------------------
(* State *)

VARIABLES
    cancel,     \* self._cancel
    task,       \* self._task
    tasks,      \* the bulk_preset handlers and the _bulk_preset tasks they create
    singles,    \* the add_emoji / remove_emoji handlers
    store,      \* homeserver: room id -> the room's im.ponies.room_emotes state
    faults,     \* remote calls that have failed so far
    call        \* a call of _validate_preset or _read_pack run on its own

vars == <<cancel, task, tasks, singles, store, faults, call>>

\* The coroutines the event loop holds: two at a time, which is what the
\* interleavings of two commands need.  A slot is "idle" until a command
\* takes it and again once its coroutine has finished and its frame is gone;
\* a slot holds either a bulk_preset handler with its task, or an add_emoji /
\* remove_emoji handler.  A handler that has replied success leaves its
\* command in the slot ("done") until the next command takes the slot.
Coros == {1, 2}
TaskIds == Coros
SingleIds == Coros

\* values of self._task: None, a task in a slot, or a task that has finished
None == 0
Finished == -1

PyNone == "<None>"
TruthyStr(s) == s # PyNone /\ s # ""

NoMsg == [sent |-> FALSE, cancelled |-> FALSE, applied |-> 0, skipped |-> 0, errors |-> <<>>]

\* pc of a slot: "idle", "starting" (bulk_preset awaits its "Starting" reply,
\* line 298), then the task: "created", "resolve" (line 130), "read" (136),
\* "write" (141), "sleep" (150), "reply" (156).
\* idx counts the rooms the loop has taken; read_ok, exit, cancelAcc and late
\* record what happened (whether the read of the current room succeeded, how
\* the loop ended, whether a cancel was accepted during the task's life,
\* whether the loop took the current room after that cancel); stale tells
\* of a task just created that self._cancel was set when line 300 ran.
IdleTask == [pc |-> "idle", name |-> "", images |-> EmptyDict, pack_meta |-> EmptyDict,
             idx |-> 0, room_id |-> <<>>, applied |-> 0, skipped |-> 0, errors |-> <<>>,
             msg |-> NoMsg, read_ok |-> TRUE, exit |-> "", cancelAcc |-> FALSE, late |-> FALSE,
             stale |-> FALSE]

IdleSingle == [pc |-> "idle", op |-> "", room_id |-> <<>>, shortcode |-> <<>>, url |-> PyStr(EmptyStr),
               images |-> EmptyDict, pack_meta |-> EmptyDict, read_ok |-> TRUE]

TaskLive == {"created", "resolve", "read", "write", "sleep", "reply"}

\* faulty variant: a task that ended with an exception is not done
done_without_exception(h) == h # Finished /\ tasks[h].pc \notin TaskLive

\* asyncio.Task.done()
done(h) == h = Finished \/ tasks[h].pc \notin TaskLive

LiveTasks == {t \in TaskIds : tasks[t].pc \in TaskLive}

FreeSlots == {c \in Coros : tasks[c].pc = "idle" /\ singles[c].pc \in {"idle", "done"}}

NoState == [present |-> FALSE, content |-> EmptyDict]
State(content) == [present |-> TRUE, content |-> content]

OldPack == State([emoticons |-> (ScSad :> [url |-> UrlDef, body |-> PyStr(<<"s">>)]),
                  pack |-> [display_name |-> "Old", attribution |-> "x"]])

InitStore == (<<"!", "a">> :> OldPack) @@ (<<"!", "b">> :> NoState)

\* a pack another client wrote: the entries carry a body next to the url
BodyPack == State([images |-> (ScHappy :> [url |-> UrlAbc, body |-> PyStr(<<"h">>)]),
                   pack |-> [display_name |-> "Std", avatar_url |-> "mxc://s/av"]])

\* what the rooms hold when the plugin starts: room b has no pack, or has
\* the pack of the other client
InitStores == {InitStore, [InitStore EXCEPT ![<<"!", "b">>] = BodyPack]}

\* no call is run on its own
NoCall == [fn |-> ""]

\* EmojiManager.start
Init ==
    /\ cancel = FALSE
    /\ task = None
    /\ tasks = [t \in TaskIds |-> IdleTask]
    /\ singles = [s \in SingleIds |-> IdleSingle]
    /\ store \in InitStores
    /\ faults = 0
    /\ call = NoCall

----------------------------------------------------------------------------
(* _bulk_preset, lines 118-157 *)

\* lines 152-156: build the report and await evt.reply
Report(tk, c, why) ==
    [tk EXCEPT !.pc = "reply", !.exit = why,
               !.msg = [sent |-> TRUE, cancelled |-> c, applied |-> tk.applied,
                        skipped |-> tk.skipped, errors |-> tk.errors]]

\* lines 125-130: the loop takes its next room, tests self._cancel and runs
\* to the next await
NextRoom(tk, c) ==
    IF tk.idx >= Len(Rooms) THEN Report(tk, c, "exhausted")
    ELSE IF c THEN Report(tk, c, "break")
    ELSE LET room == Rooms[tk.idx + 1] IN
         IF NeedsResolve(room)
         THEN [tk EXCEPT !.idx = tk.idx + 1, !.room_id = <<>>, !.read_ok = TRUE,
                         !.late = tk.cancelAcc, !.pc = "resolve"]
         ELSE [tk EXCEPT !.idx = tk.idx + 1, !.room_id = room, !.read_ok = TRUE,
                         !.late = tk.cancelAcc, !.pc = "read"]

\* faulty variant: a resolution failure leaves the loop
OnResolveError_abort(tk, c) ==
    Report([tk EXCEPT !.errors = Append(tk.errors, [room |-> Rooms[tk.idx], kind |-> "resolve"])], c, "break")

\* lines 131-133
OnResolveError(tk, c) ==
    NextRoom([tk EXCEPT !.errors = Append(tk.errors, [room |-> Rooms[tk.idx], kind |-> "resolve"])], c)

\* lines 136-141: the idempotency test on what _read_pack returned
OnRead(tk, pack, ok, c) ==
    LET display_name == Get(tk.pack_meta, "display_name", PyNone)
        current_images == pack.images
        current_pack == pack.pack_meta
    IN IF /\ TruthyStr(display_name)
          /\ Get(current_pack, "display_name", PyNone) = display_name
          /\ current_images = tk.images
       THEN NextRoom([tk EXCEPT !.skipped = tk.skipped + 1, !.read_ok = ok], c)
       ELSE [tk EXCEPT !.pc = "write", !.read_ok = ok]

\* lines 146, 150
OnWriteOk(tk) == [tk EXCEPT !.applied = tk.applied + 1, !.read_ok = TRUE, !.pc = "sleep"]

\* faulty variant: the room is counted as applied before the write is sent
OnWriteError_counted(tk) ==
    [tk EXCEPT !.errors = Append(tk.errors, [room |-> Rooms[tk.idx], kind |-> "store"]),
               !.applied = tk.applied + 1, !.read_ok = TRUE, !.pc = "sleep"]

\* lines 147-150
OnWriteError(tk) ==
    [tk EXCEPT !.errors = Append(tk.errors, [room |-> Rooms[tk.idx], kind |-> "store"]),
               !.read_ok = TRUE, !.pc = "sleep"]

\* the event loop runs the created task up to its first await
TaskStart(t) ==
    /\ tasks[t].pc = "created"
    /\ tasks' = [tasks EXCEPT ![t] = NextRoom([tasks[t] EXCEPT !.stale = FALSE], cancel)]
    /\ UNCHANGED <<cancel, task, singles, store, faults, call>>

ResolveReturn(t) ==
    /\ tasks[t].pc = "resolve"
    /\ tasks' = [tasks EXCEPT ![t] = [@ EXCEPT !.room_id = Directory[Rooms[tasks[t].idx]], !.pc = "read"]]
    /\ UNCHANGED <<cancel, task, singles, store, faults, call>>

ResolveFail(t) ==
    /\ tasks[t].pc = "resolve"
    /\ faults < MaxFaults
    /\ faults' = faults + 1
    /\ tasks' = [tasks EXCEPT ![t] = OnResolveError(tasks[t], cancel)]
    /\ UNCHANGED <<cancel, task, singles, store, call>>

\* _read_pack, lines 80-86, given what get_state_event did: a room without
\* the state event raises M_NOT_FOUND, which the except clause turns into {}
\* like any other failure
ReadPackOf(raises, raw) ==
    LET content == IF raises THEN EmptyDict ELSE serialize_content(raw)
    IN [images |-> get_images(content), pack_meta |-> get_pack_meta(content)]

\* the call of _read_pack for a room: get_state_event hands back the stored
\* content as a content object
_read_pack(room_id, ok) ==
    ReadPackOf(~ok \/ ~store[room_id].present, Obj(store[room_id].content))

ReadReturn(t) ==
    /\ tasks[t].pc = "read"
    /\ tasks' = [tasks EXCEPT ![t] = OnRead(tasks[t], _read_pack(tasks[t].room_id, TRUE), TRUE, cancel)]
    /\ UNCHANGED <<cancel, task, singles, store, faults, call>>

ReadFail(t) ==
    /\ tasks[t].pc = "read"
    /\ faults < MaxFaults
    /\ faults' = faults + 1
    /\ tasks' = [tasks EXCEPT ![t] = OnRead(tasks[t], _read_pack(tasks[t].room_id, FALSE), FALSE, cancel)]
    /\ UNCHANGED <<cancel, task, singles, store, call>>

WriteReturn(t) ==
    /\ tasks[t].pc = "write"
    /\ store' = [store EXCEPT ![tasks[t].room_id] =
                    State(build_pack_content(tasks[t].images, tasks[t].pack_meta))]
    /\ tasks' = [tasks EXCEPT ![t] = OnWriteOk(tasks[t])]
    /\ UNCHANGED <<cancel, task, singles, faults, call>>

WriteFail(t) ==
    /\ tasks[t].pc = "write"
    /\ faults < MaxFaults
    /\ faults' = faults + 1
    /\ tasks' = [tasks EXCEPT ![t] = OnWriteError(tasks[t])]
    /\ UNCHANGED <<cancel, task, singles, store, call>>

SleepReturn(t) ==
    /\ tasks[t].pc = "sleep"
    /\ tasks' = [tasks EXCEPT ![t] = NextRoom(tasks[t], cancel)]
    /\ UNCHANGED <<cancel, task, singles, store, faults, call>>

\* lines 156-157: the report is delivered, then self._task = None
ReplyReturn(t) ==
    /\ tasks[t].pc = "reply"
    /\ tasks' = [tasks EXCEPT ![t] = IdleTask]
    /\ task' = None
    /\ UNCHANGED <<cancel, singles, store, faults, call>>

\* evt.reply raises: the task ends with the exception, line 157 is not run
ReplyFail(t) ==
    /\ tasks[t].pc = "reply"
    /\ faults < MaxFaults
    /\ faults' = faults + 1
    /\ tasks' = [tasks EXCEPT ![t] = IdleTask]
    /\ task' = IF task = t THEN Finished ELSE task
    /\ UNCHANGED <<cancel, singles, store, call>>

----------------------------------------------------------------------------
(* Command handlers *)

FreeSlot == CHOOSE c \in FreeSlots : \A d \in FreeSlots : c <= d

\* bulk_preset, lines 277-298: the reply the handler sends first
bulk_preset_reply(sender, name) ==
    IF ~_is_allowed(sender) THEN "not_allowed"
    ELSE IF task # None /\ ~done(task) THEN "already_running"
    ELSE IF ~Truthy(Rooms) THEN "no_rooms"
    ELSE IF Validated[name].error # "" THEN Validated[name].error
    ELSE "starting"

\* bulk_preset, lines 276-298: everything up to the await of the "Starting"
\* reply; a handler that replies with an error returns and changes nothing
bulk_preset(sender, name) ==
    /\ IF bulk_preset_reply(sender, name) # "starting"
       THEN UNCHANGED tasks
       ELSE /\ FreeSlots # {}
            /\ tasks' = [tasks EXCEPT ![FreeSlot] =
                            [@ EXCEPT !.pc = "starting", !.name = name,
                                      !.images = Validated[name].images,
                                      !.pack_meta = Validated[name].pack_meta]]
    /\ UNCHANGED <<cancel, task, singles, store, faults, call>>

\* faulty variant: line 300 is missing, the flag keeps its value
BulkPresetResume_no_reset(t) ==
    /\ tasks[t].pc = "starting"
    /\ cancel' = cancel
    /\ task' = t
    /\ tasks' = [tasks EXCEPT ![t] = [@ EXCEPT !.pc = "created", !.stale = cancel]]
    /\ UNCHANGED <<singles, store, faults, call>>

\* bulk_preset, lines 300-303: the reply has returned
BulkPresetResume(t) ==
    /\ tasks[t].pc = "starting"
    /\ cancel' = FALSE
    /\ task' = t
    /\ tasks' = [tasks EXCEPT ![t] = [@ EXCEPT !.pc = "created", !.stale = cancel]]
    /\ UNCHANGED <<singles, store, faults, call>>

\* the "Starting" reply raises: the handler ends before line 300
BulkPresetReplyFail(t) ==
    /\ tasks[t].pc = "starting"
    /\ faults < MaxFaults
    /\ faults' = faults + 1
    /\ tasks' = [tasks EXCEPT ![t] = IdleTask]
    /\ UNCHANGED <<cancel, task, singles, store, call>>

\* cancelAcc remembers, for each live rollout, that a cancel was accepted
MarkCancel(tk) ==
    IF tk.pc \in TaskLive THEN [tk EXCEPT !.cancelAcc = TRUE] ELSE tk

\* cancel, lines 307-316: the reply the handler sends
cancel_reply(sender) ==
    IF ~_is_allowed(sender) THEN "not_allowed"
    ELSE IF task = None \/ done(task) THEN "not_running"
    ELSE "cancelling"

\* cancel, lines 306-316
cancel_cmd(sender) ==
    /\ IF cancel_reply(sender) # "cancelling"
       THEN UNCHANGED <<cancel, tasks>>
       ELSE /\ cancel' = TRUE
            /\ tasks' = [t \in TaskIds |-> MarkCancel(tasks[t])]
    /\ UNCHANGED <<task, singles, store, faults, call>>

\* add_emoji, lines 167-178: the reply of a handler that returns early
add_reply(sender, shortcode, mxc_url) ==
    IF ~_is_allowed(sender) THEN "not_allowed"
    ELSE IF ~validate_shortcode(shortcode).valid THEN validate_shortcode(shortcode).reason
    ELSE IF ~StartsWith(mxc_url, MXC) THEN "invalid_url"
    ELSE ""

\* add_emoji, lines 166-181: up to the await inside _read_pack
add_emoji(sender, room_id, shortcode, mxc_url) ==
    /\ IF add_reply(sender, shortcode, mxc_url) # ""
       THEN UNCHANGED singles
       ELSE /\ FreeSlots # {}
            /\ singles' = [singles EXCEPT ![FreeSlot] =
                              [IdleSingle EXCEPT !.pc = "read", !.op = "add", !.room_id = room_id,
                                                 !.shortcode = shortcode, !.url = PyStr(mxc_url)]]
    /\ UNCHANGED <<cancel, task, tasks, store, faults, call>>

\* remove_emoji, lines 195-201: up to the await inside _read_pack
remove_emoji(sender, room_id, shortcode) ==
    /\ IF ~_is_allowed(sender)
       THEN UNCHANGED singles
       ELSE /\ FreeSlots # {}
            /\ singles' = [singles EXCEPT ![FreeSlot] =
                              [IdleSingle EXCEPT !.pc = "read", !.op = "remove", !.room_id = room_id,
                                                 !.shortcode = shortcode]]
    /\ UNCHANGED <<cancel, task, tasks, store, faults, call>>

\* images[shortcode] = {"url": mxc_url}, line 182
SetItem(images, shortcode, entry) ==
    [k \in DOMAIN images \cup {shortcode} |-> IF k = shortcode THEN entry ELSE images[k]]

\* del images[shortcode], line 207
DelItem(images, shortcode) ==
    [k \in DOMAIN images \ {shortcode} |-> images[k]]

\* lines 181-184 and 201-209: _read_pack has returned; remove_emoji replies
\* "not found" and returns when the shortcode is absent
SingleOnRead(h, pack, ok) ==
    IF h.op = "add"
    THEN [h EXCEPT !.pc = "write", !.read_ok = ok, !.pack_meta = pack.pack_meta,
                   !.images = SetItem(pack.images, h.shortcode, [url |-> h.url])]
    ELSE IF h.shortcode \notin DOMAIN pack.images
    THEN IdleSingle
    ELSE [h EXCEPT !.pc = "write", !.read_ok = ok, !.pack_meta = pack.pack_meta,
                   !.images = DelItem(pack.images, h.shortcode)]

SingleReadReturn(s) ==
    /\ singles[s].pc = "read"
    /\ singles' = [singles EXCEPT ![s] = SingleOnRead(singles[s], _read_pack(singles[s].room_id, TRUE), TRUE)]
    /\ UNCHANGED <<cancel, task, tasks, store, faults, call>>

SingleReadFail(s) ==
    /\ singles[s].pc = "read"
    /\ faults < MaxFaults
    /\ faults' = faults + 1
    /\ singles' = [singles EXCEPT ![s] = SingleOnRead(singles[s], _read_pack(singles[s].room_id, FALSE), FALSE)]
    /\ UNCHANGED <<cancel, task, tasks, store, call>>

\* what is left of a handler that has replied "Added" or "Removed"
Done(h) ==
    [IdleSingle EXCEPT !.pc = "done", !.op = h.op, !.room_id = h.room_id,
                       !.shortcode = h.shortcode, !.read_ok = h.read_ok]

\* lines 184-189 and 209-214: the write returns, the handler replies that
\* the emoji was added or removed, and ends
SingleWriteReturn(s) ==
    /\ singles[s].pc = "write"
    /\ store' = [store EXCEPT ![singles[s].room_id] =
                    State(build_pack_content(singles[s].images, singles[s].pack_meta))]
    /\ singles' = [singles EXCEPT ![s] = Done(singles[s])]
    /\ UNCHANGED <<cancel, task, tasks, faults, call>>

\* lines 190-191 and 215-216: the write raises, the handler replies the error
SingleWriteFail(s) ==
    /\ singles[s].pc = "write"
    /\ faults < MaxFaults
    /\ faults' = faults + 1
    /\ singles' = [singles EXCEPT ![s] = IdleSingle]
    /\ UNCHANGED <<cancel, task, tasks, store, call>>

----------------------------------------------------------------------------
(* Specification *)

\* what users type
BulkNames == PresetNames
AddShortcodes == {ScHappy, ScSad, ScBad}
AddUrls == {UrlAbc.s, UrlHttp.s}
RemoveShortcodes == {ScSad}
CommandRooms == RoomIds

BulkPresetCmd == \E sender \in Senders, name \in BulkNames : bulk_preset(sender, name)
CancelCmd == \E sender \in Senders : cancel_cmd(sender)
AddCmd == \E sender \in Senders, room_id \in CommandRooms, shortcode \in AddShortcodes, mxc_url \in AddUrls :
              add_emoji(sender, room_id, shortcode, mxc_url)
RemoveCmd == \E sender \in Senders, room_id \in CommandRooms, shortcode \in RemoveShortcodes :
                 remove_emoji(sender, room_id, shortcode)

\* The rollout coordinator: bulk-preset and cancel commands and the tasks
Next ==
    \/ BulkPresetCmd
    \/ CancelCmd
    \/ \E t \in TaskIds : BulkPresetResume(t)
    \/ \E t \in TaskIds : BulkPresetReplyFail(t)
    \/ \E t \in TaskIds : TaskStart(t)
    \/ \E t \in TaskIds : ResolveReturn(t)
    \/ \E t \in TaskIds : ResolveFail(t)
    \/ \E t \in TaskIds : ReadReturn(t)
    \/ \E t \in TaskIds : ReadFail(t)
    \/ \E t \in TaskIds : WriteReturn(t)
    \/ \E t \in TaskIds : WriteFail(t)
    \/ \E t \in TaskIds : SleepReturn(t)
    \/ \E t \in TaskIds : ReplyReturn(t)
    \/ \E t \in TaskIds : ReplyFail(t)

Spec == Init /\ [][Next]_vars

\* The rollout coordinator under the scheduling of the event loop: a
\* coroutine that can run does run, every remote call returns or fails, and
\* every sleep ends
TaskStep(t) ==
    \/ BulkPresetResume(t)
    \/ BulkPresetReplyFail(t)
    \/ TaskStart(t)
    \/ ResolveReturn(t)
    \/ ResolveFail(t)
    \/ ReadReturn(t)
    \/ ReadFail(t)
    \/ WriteReturn(t)
    \/ WriteFail(t)
    \/ SleepReturn(t)
    \/ ReplyReturn(t)
    \/ ReplyFail(t)

SpecFair == Init /\ [][Next]_vars /\ \A t \in TaskIds : WF_vars(TaskStep(t))

\* The single-target commands: add and remove, in rooms that hold a legacy
\* pack, a pack written by a preset, or no pack
StdPack == State(build_pack_content(Validated["std"].images, Validated["std"].pack_meta))

InitSingle ==
    /\ cancel = FALSE
    /\ task = None
    /\ tasks = [t \in TaskIds |-> IdleTask]
    /\ singles = [s \in SingleIds |-> IdleSingle]
    /\ store \in [RoomIds -> {OldPack, StdPack, NoState}]
    /\ faults = 0
    /\ call = NoCall

NextSingle ==
    \/ AddCmd
    \/ RemoveCmd
    \/ \E s \in SingleIds : SingleReadReturn(s)
    \/ \E s \in SingleIds : SingleReadFail(s)
    \/ \E s \in SingleIds : SingleWriteReturn(s)
    \/ \E s \in SingleIds : SingleWriteFail(s)

SpecSingle == InitSingle /\ [][NextSingle]_vars

\* add commands only, two at a time
NextAdd ==
    \/ AddCmd
    \/ \E s \in SingleIds : SingleReadReturn(s)
    \/ \E s \in SingleIds : SingleReadFail(s)
    \/ \E s \in SingleIds : SingleWriteReturn(s)
    \/ \E s \in SingleIds : SingleWriteFail(s)

SpecAdd == InitSingle /\ [][NextAdd]_vars

\* _validate_preset on its own: the raw `images` section of a preset, drawn
\* from the values a YAML configuration can hold (a dict keeps its keys
\* distinct), is validated one entry per step
UrlInt == PyInt(7)
RawShortcodes == {ScHappy, ScSad, ScBad, ScLong}
RawEntries == {DictEntry([url |-> UrlAbc]), DictEntry([url |-> UrlHttp]), DictEntry(EmptyDict),
               DictEntry([url |-> UrlInt]), StrEntry(MXC)}
RawImages ==
    UNION {{r \in [1..n -> RawShortcodes \X RawEntries] :
               \A i, j \in 1..n : i # j => r[i][1] # r[j][1]} : n \in 0..MaxEntries}

InitValidate ==
    /\ cancel = FALSE
    /\ task = None
    /\ tasks = [t \in TaskIds |-> IdleTask]
    /\ singles = [s \in SingleIds |-> IdleSingle]
    /\ store = InitStore
    /\ faults = 0
    /\ call \in {[fn |-> "validate", raw_images |-> r, i |-> 1, acc |-> NoEntries] : r \in RawImages}

\* lines 102-110: the loop takes entry i
ValidateStep ==
    /\ call.fn = "validate"
    /\ call.i <= Len(call.raw_images)
    /\ ~call.acc.raised
    /\ call' = [call EXCEPT !.i = call.i + 1,
                            !.acc = ValidateEntry(call.acc, call.raw_images[call.i][1],
                                                  call.raw_images[call.i][2])]
    /\ UNCHANGED <<cancel, task, tasks, singles, store, faults>>

NextValidate == ValidateStep

SpecValidate == InitValidate /\ [][NextValidate]_vars

\* _read_pack on its own: get_state_event raises, or hands back a raw value
\* whose fields hold the values JSON allows.  A field is absent, a dict, a
\* falsy value ({} here, which `or` treats like None, [], "" and 0), a
\* non-empty list or a non-empty string.
FieldKinds == {"absent", "dict", "falsy", "list", "str"}
FieldDicts == [images |-> (ScHappy :> [url |-> UrlAbc]),
               emoticons |-> (ScSad :> [url |-> UrlDef]),
               pack |-> [display_name |-> "Std"]]
FieldValue(field, kind) ==
    IF kind = "dict" THEN FieldDicts[field]
    ELSE IF kind = "falsy" THEN EmptyDict
    ELSE IF kind = "list" THEN << <<"x">> >>
    ELSE <<"x">>
Blob(kinds) ==
    [field \in {f \in DOMAIN kinds : kinds[f] # "absent"} |-> FieldValue(field, kinds[field])]
NoFields == [field \in {"images", "emoticons", "pack"} |-> "absent"]

\* the inputs, by kind: get_state_event raises, hands back a list or a
\* string, or hands back a content object or a dict with the given fields
RawKinds ==
    {[kind |-> k, fields |-> NoFields] : k \in {"raises", "list", "str"}}
    \cup {[kind |-> k, fields |-> kinds] :
             k \in {"obj", "dict"}, kinds \in [{"images", "emoticons", "pack"} -> FieldKinds]}

\* the raw value of an input
RawOf(in) ==
    IF in.kind = "obj" THEN Obj(Blob(in.fields))
    ELSE IF in.kind = "dict" THEN RawDict(Blob(in.fields))
    ELSE IF in.kind = "list" THEN RawOther(<< <<"x">> >>)
    ELSE RawOther(<<"x">>)

InitDecode ==
    /\ cancel = FALSE
    /\ task = None
    /\ tasks = [t \in TaskIds |-> IdleTask]
    /\ singles = [s \in SingleIds |-> IdleSingle]
    /\ store = InitStore
    /\ faults = 0
    /\ call \in {[fn |-> "decode", in |-> r, returned |-> FALSE,
                  out |-> [images |-> EmptyDict, pack_meta |-> EmptyDict]] : r \in RawKinds}

\* lines 81-86
DecodeStep ==
    /\ call.fn = "decode"
    /\ ~call.returned
    /\ call' = [call EXCEPT !.returned = TRUE,
                            !.out = ReadPackOf(call.in.kind = "raises", RawOf(call.in))]
    /\ UNCHANGED <<cancel, task, tasks, singles, store, faults>>

NextDecode == DecodeStep

SpecDecode == InitDecode /\ [][NextDecode]_vars

----------------------------------------------------------------------------
(* Properties *)

Admin == "@admin"
RoomA == <<"!", "a">>
RoomB == <<"!", "b">>

\* the step is the return of a successful remote read to rollout task t
ReadOkStep(t) == tasks[t].pc = "read" /\ tasks'[t].pc # "read" /\ faults' = faults

\* the step is a failed resolve or a failed write of rollout task t
FailStep(t) == tasks[t].pc \in {"resolve", "write"} /\ tasks'[t] # tasks[t] /\ faults' = faults + 1

\* the room's state is exactly what applying the task's preset writes
HoldsPreset(t) ==
    store[tasks[t].room_id] = State(build_pack_content(tasks[t].images, tasks[t].pack_meta))

\* task t is the only rollout alive: it runs after the one that wrote the room
Consecutive(t) == \A u \in TaskIds : u # t => tasks[u].pc = "idle"

\* C1: single-flight: at most one rollout pass (_bulk_preset task) is live at
\* any time, for every interleaving of bulk-preset commands.
C1_SingleFlight == Cardinality(LiveTasks) <= 1

\* C2: a bulk-preset command issued while a rollout pass is running is always
\* answered with the "already running" error (and with that reply the handler
\* returns without changing any state).
C2_StartRejectedWhileRunning ==
    LiveTasks # {} => \A name \in BulkNames : bulk_preset_reply(Admin, name) = "already_running"

\* C3: cancel is accepted whenever a rollout pass is in progress and rejected
\* with "no job running" whenever none is.
C3_CancelContract ==
    /\ LiveTasks # {} => cancel_reply(Admin) = "cancelling"
    /\ LiveTasks = {} => cancel_reply(Admin) = "not_running"

\* C4: once a cancel has been accepted during a rollout, that rollout issues
\* no write to a room its loop took after the cancel.
C4_CancellationBound == \A t \in TaskIds : ~(tasks[t].late /\ tasks[t].pc = "write")

\* C5: whenever a cancel was accepted while a rollout pass was live, the
\* report of that pass is marked cancelled.
C5_CancelReported ==
    \A t \in TaskIds : tasks[t].pc = "reply" /\ tasks[t].cancelAcc => tasks[t].msg.cancelled

\* C6 as claimed: for every validated preset, a rollout that runs after an
\* earlier one and reads a room still holding exactly what applying the same
\* preset wrote counts the room as skipped and issues no write.
C6_IdempotentEveryPreset ==
    [][\A t \in TaskIds : /\ ReadOkStep(t)
                          /\ HoldsPreset(t)
                          /\ Consecutive(t)
          => /\ tasks'[t].skipped = tasks[t].skipped + 1
             /\ tasks'[t].applied = tasks[t].applied
             /\ tasks'[t].pc # "write"
             /\ UNCHANGED store]_vars

\* C6 amended: the same, for every validated preset whose pack metadata
\* carries a non-empty display name.
C6_IdempotentNamedPreset ==
    [][\A t \in TaskIds : /\ ReadOkStep(t)
                          /\ HoldsPreset(t)
                          /\ Consecutive(t)
                          /\ TruthyStr(Get(tasks[t].pack_meta, "display_name", PyNone))
          => /\ tasks'[t].skipped = tasks[t].skipped + 1
             /\ tasks'[t].applied = tasks[t].applied
             /\ tasks'[t].pc # "write"
             /\ UNCHANGED store]_vars

\* a second application is about to read room A, which holds the named preset
C6_Witness ==
    \E t \in TaskIds : /\ tasks[t].pc = "read" /\ tasks[t].name = "std"
                       /\ tasks[t].room_id = RoomA /\ HoldsPreset(t) /\ Consecutive(t)

\* C7: a resolution failure or a write failure adds exactly one entry for the
\* current room to the error list and does not end the pass: the loop goes on
\* to the next room in list order, and it ends only when the list is
\* exhausted or the cancellation flag is seen; the report carries the errors.
C7_PartialFailureTolerance ==
    /\ [][\A t \in TaskIds : FailStep(t) =>
            /\ tasks'[t].errors = Append(tasks[t].errors,
                                         [room |-> Rooms[tasks[t].idx],
                                          kind |-> IF tasks[t].pc = "resolve" THEN "resolve" ELSE "store"])
            /\ tasks'[t].applied = tasks[t].applied /\ tasks'[t].skipped = tasks[t].skipped
            /\ IF tasks[t].pc = "write"
               THEN tasks'[t].pc = "sleep" /\ tasks'[t].idx = tasks[t].idx
               ELSE \/ tasks'[t].pc \in {"resolve", "read"} /\ tasks'[t].idx = tasks[t].idx + 1
                    \/ tasks'[t].pc = "reply"]_vars
    /\ [][\A t \in TaskIds : tasks[t].pc \in TaskLive /\ tasks'[t].pc \in TaskLive =>
            tasks'[t].idx \in {tasks[t].idx, tasks[t].idx + 1}]_vars
    /\ [](\A t \in TaskIds : tasks[t].pc = "reply" =>
            /\ tasks[t].msg.errors = tasks[t].errors
            /\ \/ tasks[t].exit = "exhausted" /\ tasks[t].idx = Len(Rooms)
               \/ tasks[t].exit = "break" /\ tasks[t].msg.cancelled)

\* the first room failed and the pass is at the second room
C7_Witness ==
    \E t \in TaskIds : tasks[t].idx = 2 /\ tasks[t].pc = "read" /\ Len(tasks[t].errors) = 1

\* C8: a failed remote read during a rollout is recorded as an error of the
\* current room.
C8_ReadFailureRecorded ==
    \A t \in TaskIds : ~tasks[t].read_ok =>
        /\ tasks[t].errors # <<>>
        /\ tasks[t].errors[Len(tasks[t].errors)].room = Rooms[tasks[t].idx]

\* C9: in add_emoji and remove_emoji a failed remote read aborts the
\* operation: no write is issued.
C9_SingleReadFailureAborts ==
    \A s \in SingleIds : singles[s].pc = "write" => singles[s].read_ok

\* C10: whenever a rollout counts a room as applied, the room's state decodes
\* to exactly the validated preset (entries and pack metadata) and keeps no
\* other field of the previous state.
C10_FullOverwrite ==
    [][\A t \in TaskIds : tasks'[t].applied = tasks[t].applied + 1 =>
          LET r == tasks[t].room_id
              v == Validated[tasks[t].name]
          IN /\ store'[r].present
             /\ get_images(store'[r].content) = v.images
             /\ get_pack_meta(store'[r].content) = v.pack_meta
             /\ DOMAIN store'[r].content \subseteq {"images", "pack"}]_vars

\* room A, which held a legacy pack with other entries and metadata, has just
\* been overwritten with the named preset
C10_Witness ==
    \E t \in TaskIds : /\ tasks[t].pc = "sleep" /\ tasks[t].applied = 1 /\ tasks[t].idx = 1
                       /\ tasks[t].name = "std" /\ store[RoomA] = State(build_pack_content(tasks[t].images, tasks[t].pack_meta))
                       /\ store[RoomA] # InitStore[RoomA]

\* a raw entry the validator is to keep: a valid shortcode whose value is a
\* record with a string url beginning with mxc://
ValidEntry(shortcode, entry) ==
    /\ validate_shortcode(shortcode).valid
    /\ entry.t = "dict"
    /\ "url" \in DOMAIN entry.d
    /\ entry.d["url"].t = "str"
    /\ StartsWith(entry.d["url"].s, MXC)

\* the preset is unknown, has no entries section, or has no valid entry
FailsValidation(name) ==
    \/ name \notin DOMAIN Presets
    \/ "images" \notin DOMAIN Presets[name]
    \/ \A i \in 1..Len(Presets[name]["images"]) :
          ~ValidEntry(Presets[name]["images"][i][1], Presets[name]["images"][i][2])

\* the preset names a command may carry that fail validation
InvalidPresets == {name \in BulkNames : FailsValidation(name)}

\* C12: a bulk-preset command for a preset that fails validation changes
\* nothing (no handler or task is started, self._cancel and self._task keep
\* their values, no remote call is pending, the store is untouched); every
\* bulk_preset handler and every rollout task holds a preset that passes
\* validation and a non-empty entry set.
C12_InvalidPresetNeverStarts ==
    /\ [][\A name \in InvalidPresets : \A sender \in Senders : ~bulk_preset(sender, name)]_vars
    /\ [](\A name \in InvalidPresets : bulk_preset_reply(Admin, name) # "starting")
    /\ [](\A t \in TaskIds : tasks[t].pc # "idle" =>
             tasks[t].name \notin InvalidPresets /\ Truthy(tasks[t].images))

\* a cancelled rollout has ended and left the flag set; the coordinator is
\* idle, so a bulk-preset command reaches validation, and the three kinds of
\* invalid preset are answered with their validation error
C12_Witness ==
    /\ cancel /\ task = None /\ \A t \in TaskIds : tasks[t].pc = "idle"
    /\ store # InitStore
    /\ bulk_preset_reply(Admin, "nope") = "unknown"
    /\ bulk_preset_reply(Admin, "broken") = "misconfigured"
    /\ bulk_preset_reply(Admin, "empty") = "no_valid"

\* C13: whenever the loop of a rollout goes from one room of the list to the
\* next, it does so from the inter-room sleep (line 150), whatever the outcome
\* for the first room was.
C13_AlwaysWaits ==
    [][\A t \in TaskIds : /\ tasks[t].pc \in TaskLive
                          /\ tasks[t].idx >= 1
                          /\ tasks'[t].idx = tasks[t].idx + 1
          => tasks[t].pc = "sleep"]_vars

\* C14: a rollout is never in the inter-room sleep (line 150) once it has
\* taken the last room of the list.
C14_NoTrailingWait ==
    \A t \in TaskIds : tasks[t].pc = "sleep" => tasks[t].idx < Len(Rooms)

\* two entry sets have the same shortcodes and, for each, the same url
SameEntries(a, b) ==
    /\ DOMAIN a = DOMAIN b
    /\ \A k \in DOMAIN a : Get(a[k], "url", PyNone) = Get(b[k], "url", PyNone)

\* the step is the return, good or bad, of the remote read of rollout task t
ReadStep(t) == tasks[t].pc = "read" /\ tasks'[t].pc # "read"

\* C15: when the read of a resolved room returns, the room is counted as
\* skipped and no write follows exactly when the preset's pack metadata has a
\* display name, the room's pack has the same display name, and the room's
\* entries are those of the preset (same shortcodes, same urls); in every
\* other case the write is issued and nothing is counted as skipped.
C15_SkipExactlyWhen ==
    [][\A t \in TaskIds : ReadStep(t) =>
          LET current == _read_pack(tasks[t].room_id, TRUE)
              same == /\ "display_name" \in DOMAIN tasks[t].pack_meta
                      /\ Get(current.pack_meta, "display_name", PyNone) = tasks[t].pack_meta["display_name"]
                      /\ SameEntries(current.images, tasks[t].images)
          IN IF same
             THEN tasks'[t].skipped = tasks[t].skipped + 1 /\ tasks'[t].pc # "write"
             ELSE tasks'[t].skipped = tasks[t].skipped /\ tasks'[t].pc = "write"]_vars

\* rooms a rollout has accounted for
Counted(tk) == tk.applied + tk.skipped + Len(tk.errors)

\* C16: every room the loop has taken and finished is counted once, in
\* exactly one of applied, skipped and errors, and no other room is counted:
\* the sum is the number of rooms taken, less the one in progress.  In the
\* report the sum is the length of the room list when the report is not
\* marked cancelled, and is smaller when the loop left at the cancel test.
C16_Accounting ==
    /\ [](\A t \in TaskIds :
            /\ tasks[t].pc \in {"idle", "starting", "created"} => Counted(tasks[t]) = 0 /\ tasks[t].idx = 0
            /\ tasks[t].pc \in {"resolve", "read", "write"} => Counted(tasks[t]) = tasks[t].idx - 1
            /\ tasks[t].pc \in {"sleep", "reply"} => Counted(tasks[t]) = tasks[t].idx
            /\ tasks[t].pc = "reply" =>
                  /\ tasks[t].msg.applied = tasks[t].applied
                  /\ tasks[t].msg.skipped = tasks[t].skipped
                  /\ tasks[t].msg.errors = tasks[t].errors
                  /\ ~tasks[t].msg.cancelled => Counted(tasks[t]) = Len(Rooms)
                  /\ tasks[t].exit = "break" => tasks[t].msg.cancelled /\ Counted(tasks[t]) < Len(Rooms))
    /\ [][\A t \in TaskIds : tasks[t].pc \in TaskLive /\ tasks'[t].pc \in TaskLive =>
            \/ /\ tasks'[t].applied = tasks[t].applied /\ tasks'[t].skipped = tasks[t].skipped
               /\ tasks'[t].errors = tasks[t].errors
            \/ /\ tasks'[t].applied = tasks[t].applied + 1 /\ tasks'[t].skipped = tasks[t].skipped
               /\ tasks'[t].errors = tasks[t].errors
            \/ /\ tasks'[t].applied = tasks[t].applied /\ tasks'[t].skipped = tasks[t].skipped + 1
               /\ tasks'[t].errors = tasks[t].errors
            \/ /\ tasks'[t].applied = tasks[t].applied /\ tasks'[t].skipped = tasks[t].skipped
               /\ Len(tasks'[t].errors) = Len(tasks[t].errors) + 1]_vars

\* the loop saw the flag at its second room: the report is marked cancelled
\* and counts the first room only
C16_Witness ==
    \E t \in TaskIds : /\ tasks[t].pc = "reply" /\ tasks[t].exit = "break"
                       /\ tasks[t].idx = 1 /\ Counted(tasks[t]) = 1 /\ tasks[t].msg.cancelled

\* C17: a rollout during whose life no cancel was accepted leaves its loop
\* only when the room list is exhausted, has then taken every room, and its
\* report is not marked cancelled, whatever value self._cancel had when the
\* rollout was started; and while such a rollout is alive the flag is clear.
C17_CancelFlagReset ==
    \A t \in TaskIds :
        /\ tasks[t].pc \in TaskLive /\ ~tasks[t].cancelAcc /\ tasks[t].pc # "reply" => ~cancel
        /\ tasks[t].pc = "reply" /\ ~tasks[t].cancelAcc =>
              /\ tasks[t].exit = "exhausted"
              /\ tasks[t].idx = Len(Rooms)
              /\ Counted(tasks[t]) = Len(Rooms)
              /\ ~tasks[t].msg.cancelled

\* the previous rollout was cancelled and left the flag set; the handler of
\* the next one has run lines 300-303: the flag is clear and the new task,
\* the only one alive, has no cancel in its life
C17_Witness ==
    \E t \in TaskIds : /\ tasks[t].pc = "created" /\ tasks[t].stale /\ ~tasks[t].cancelAcc
                       /\ ~cancel /\ task = t /\ Consecutive(t)

\* C18: after any number of raw entries, the validator has not raised, has
\* kept exactly the valid entries and has one warning for each of the others
\* (so kept entries plus warnings is the number of entries taken), and the
\* warnings name the dropped shortcodes in input order.
C18_NeverAborts ==
    call.fn = "validate" =>
        LET raw == call.raw_images
            n == call.i - 1
            acc == call.acc
            bad == {i \in 1..n : ~ValidEntry(raw[i][1], raw[i][2])}
        IN /\ ~acc.raised
           /\ DOMAIN acc.images = {raw[i][1] : i \in (1..n) \ bad}
           /\ Cardinality(DOMAIN acc.images) + Len(acc.warnings) = n
           /\ Len(acc.warnings) = Cardinality(bad)
           /\ \A j \in 1..Len(acc.warnings) :
                 acc.warnings[j].shortcode =
                     raw[CHOOSE i \in bad : Cardinality({k \in bad : k < i}) = j - 1][1]

\* C19: _read_pack returns an empty entry set and empty pack metadata when
\* get_state_event raises or hands back a value that is not a mapping; for a
\* mapping, it returns an empty entry set when neither `images` nor
\* `emoticons` holds a dict, and empty pack metadata when `pack` does not
\* hold a dict.
C19_DecodeNeverMalformed ==
    call.fn = "decode" /\ call.returned =>
        IF call.in.kind \notin {"obj", "dict"}
        THEN ~Truthy(call.out.images) /\ ~Truthy(call.out.pack_meta)
        ELSE /\ call.in.fields["images"] # "dict" /\ call.in.fields["emoticons"] # "dict"
                   => ~Truthy(call.out.images)
             /\ call.in.fields["pack"] # "dict" => ~Truthy(call.out.pack_meta)

\* C20: when two add_emoji handlers for different shortcodes and the same
\* room have both read the room's pack successfully and have both replied
\* that the emoji was added, the room's pack holds both shortcodes.
C20_NoLostUpdate ==
    \A s, u \in SingleIds :
        /\ s # u
        /\ singles[s].pc = "done" /\ singles[u].pc = "done"
        /\ singles[s].op = "add" /\ singles[u].op = "add"
        /\ singles[s].read_ok /\ singles[u].read_ok
        /\ singles[s].room_id = singles[u].room_id
        /\ singles[s].shortcode # singles[u].shortcode
        => {singles[s].shortcode, singles[u].shortcode}
              \subseteq DOMAIN _read_pack(singles[s].room_id, TRUE).images

\* the coordinator is idle: a bulk-preset command for a valid preset is accepted
Accepts == bulk_preset_reply(Admin, "std") = "starting"

====
